---- MODULE Spec2Model ----
(***************************************************************************)
(* A model of the HQM replay decoder: the bit reader of hqm_parse.rs       *)
(* (HQMMessageReader) and the decode loop of main.rs.                      *)
(*                                                                         *)
(* A u32 that may reach 2^31 or more is kept as the set of its set bit     *)
(* positions (a subset of 0..31): `|` is union, `<<` moves the positions   *)
(* and drops those past 31.  A u32 known to stay below 2^31, and every     *)
(* i32, is an integer.                                                     *)
(***************************************************************************)
EXTENDS Integers, Sequences, FiniteSets, TLC

VARIABLES
    buf,        \* HQMMessageReader.buf: the bytes of the file
    pos,        \* HQMMessageReader.pos
    bit_pos,    \* HQMMessageReader.bit_pos
    checks,     \* the build: TRUE when overflow checks are compiled in (debug)
    pc,         \* where the process is: "start", "loop", "run", "done", "panic"
    last,       \* the last reader operation: its arguments, where it started, what it returned
    old_saved_packets,   \* main: the history cache, packet number -> raw 32-slot table
    history,             \* main: the HQMGameState of every packet decoded
    current_player_list, \* main
    current_msg_pos,     \* main
    why,        \* the message of the panic that ended the process
    refs,       \* the references the last read_objects gave read_pos, slot by slot
    wire        \* the packets the file was written from

dvars == <<old_saved_packets, history, current_player_list, current_msg_pos, why, refs, wire>>

vars == <<buf, pos, bit_pos, checks, pc, last, dvars>>

(***************************************************************************)
(* Bounds of the model.                                                    *)
(***************************************************************************)
NumSeeds == 3
MaxBufLen == 6
MaxStartBit == 7
MaxBytes == 2
MaxPackets == 2
MaxCuts == 1
CutStep == 7

(***************************************************************************)
(* Arithmetic helpers.                                                     *)
(***************************************************************************)
Pow2 == [n \in 0..30 |-> 2^n]

Min(a, b) == IF a <= b THEN a ELSE b

Max(a, b) == IF a >= b THEN a ELSE b

ByteBits == [x \in 0..255 |-> {i \in 0..7 : (x \div Pow2[i]) % 2 = 1}]

BitsOf(x) == ByteBits[x]

RECURSIVE ToNat(_)
ToNat(S) == IF S = {} THEN 0
            ELSE LET i == CHOOSE j \in S : TRUE IN Pow2[i] + ToNat(S \ {i})

\* The u32 of a number below 2^31.
U32Of(n) == {i \in 0..30 : (n \div Pow2[i]) % 2 = 1}

Shl(S, p) == {i + p : i \in S} \cap (0..31)

U32Ge(a, c) == LET d == (a \ c) \cup (c \ a)
               IN  d = {} \/ (CHOOSE m \in d : \A j \in d : j <= m) \in a

I32Of(S) == IF 31 \in S THEN ToNat(S \ {31}) - Pow2[30] - Pow2[30] ELSE ToNat(S)

MaxI32 == (Pow2[30] - 1) + Pow2[30]

None == <<>>

Some(v) == <<v>>

(***************************************************************************)
(* HQMMessageReader.  The reader (`self`) is a record with the fields pos  *)
(* and bit_pos; what an operation returns carries the reader it leaves.    *)
(***************************************************************************)
Cursor(p, bp) == [pos |-> p, bit_pos |-> bp]

\* A plausible slip: the index clamped to the last byte instead of a 0 returned.
safe_get_byte_clamped(b, p) ==
    IF p < Len(b) THEN b[p + 1] ELSE IF Len(b) > 0 THEN b[Len(b)] ELSE 0

safe_get_byte(b, p) == IF p < Len(b) THEN b[p + 1] ELSE 0

align(c) == IF c.bit_pos > 0 THEN Cursor(c.pos + 1, 0) ELSE Cursor(c.pos, c.bit_pos)

next(c) == Cursor(c.pos + 1, 0)

\* A plausible slip: the mask left out.
masked_not(byte, bp, bits) == byte \div Pow2[bp]

\* (byte >> bit_pos) & mask, the mask being the lowest `bits` bits.
masked(byte, bp, bits) == (byte \div Pow2[bp]) % Pow2[bits]

\* A plausible slip: > for >=.
fills_byte_strict(bits_remaining, bits_possible_to_write) ==
    bits_remaining > bits_possible_to_write

\* The test that moves the reader to the next byte.
fills_byte(bits_remaining, bits_possible_to_write) ==
    bits_remaining >= bits_possible_to_write

RECURSIVE read_bits_loop(_, _, _, _, _, _)
read_bits_loop(b, p, bp, bits_remaining, res, sh) ==
    IF bits_remaining > 0
    THEN IF fills_byte(bits_remaining, 8 - bp)
         THEN read_bits_loop(b, p + 1, 0, bits_remaining - (8 - bp),
                  res \cup Shl(BitsOf(masked(safe_get_byte(b, p), bp,
                                             Min(bits_remaining, 8 - bp))), sh),
                  sh + Min(bits_remaining, 8 - bp))
         ELSE read_bits_loop(b, p, bp + bits_remaining, 0,
                  res \cup Shl(BitsOf(masked(safe_get_byte(b, p), bp,
                                             Min(bits_remaining, 8 - bp))), sh),
                  sh)
    ELSE [val |-> res, pos |-> p, bit_pos |-> bp]

read_bits(b, c, n) == read_bits_loop(b, c.pos, c.bit_pos, n, {}, 0)

\* The sign extension of read_bits_signed(n), n in 0..32, on the value a read.
\* `b - 1` on a u8 of 0 and `-1 << 32` on an i32 overflow: the checked build
\* panics, the unchecked one wraps (255, and a shift amount taken modulo 32).
sign_extend(a, n, chk) ==
    IF n = 0 /\ chk
    THEN [val |-> 0, pos |-> a.pos, bit_pos |-> a.bit_pos, panic |-> TRUE]
    ELSE IF U32Ge(a.val, {(IF n = 0 THEN 255 ELSE n - 1) % 32})
    THEN IF n >= 32 /\ chk
         THEN [val |-> 0, pos |-> a.pos, bit_pos |-> a.bit_pos, panic |-> TRUE]
         ELSE [val |-> I32Of(((n % 32)..31) \cup a.val), pos |-> a.pos,
               bit_pos |-> a.bit_pos, panic |-> FALSE]
    ELSE [val |-> I32Of(a.val), pos |-> a.pos, bit_pos |-> a.bit_pos, panic |-> FALSE]

read_bits_signed(b, c, n, chk) == sign_extend(read_bits(b, c, n), n, chk)

\* (old_value + diff).max(0) as u32, on i32: the sum overflows past 2^31 - 1.
add_clamp(old_value, diff, chk) ==
    IF diff > 0 /\ old_value > MaxI32 - diff
    THEN IF chk THEN [val |-> 0, panic |-> TRUE]
         ELSE [val |-> Max((old_value - MaxI32 - 1) + (diff - MaxI32 - 1), 0),
               panic |-> FALSE]
    ELSE [val |-> Max(old_value + diff, 0), panic |-> FALSE]

\* An arm 0, 1 or 2 of read_pos once diff is read: the unwrap, then the sum.
apply_diff(diff, old_value, s) ==
    IF old_value = None
    THEN [val |-> 0, pos |-> diff.pos, bit_pos |-> diff.bit_pos, panic |-> TRUE,
          why |-> "unwrap on None"]
    ELSE [val |-> s.val, pos |-> diff.pos, bit_pos |-> diff.bit_pos, panic |-> s.panic,
          why |-> IF s.panic THEN "add with overflow" ELSE ""]

read_pos_diff(diff, old_value, chk) ==
    apply_diff(diff, old_value,
               IF old_value = None THEN [val |-> 0, panic |-> TRUE]
               ELSE add_clamp(old_value[1], diff.val, chk))

read_pos_full(v) ==
    [val |-> ToNat(v.val), pos |-> v.pos, bit_pos |-> v.bit_pos, panic |-> FALSE,
     why |-> ""]

\* The match of read_pos on the selector pos_type just read.
read_pos_match(b, pos_type, w, old_value, chk) ==
    CASE pos_type.val = {} ->
            read_pos_diff(read_bits_signed(b, pos_type, 3, chk), old_value, chk)
      [] pos_type.val = {0} ->
            read_pos_diff(read_bits_signed(b, pos_type, 6, chk), old_value, chk)
      [] pos_type.val = {1} ->
            read_pos_diff(read_bits_signed(b, pos_type, 12, chk), old_value, chk)
      [] OTHER -> read_pos_full(read_bits(b, pos_type, w))

read_pos(b, c, w, old_value, chk) ==
    read_pos_match(b, read_bits(b, c, 2), w, old_value, chk)

read_byte_aligned(b, c) ==
    [val |-> safe_get_byte(b, align(c).pos), pos |-> align(c).pos + 1,
     bit_pos |-> align(c).bit_pos]

read_bytes_aligned(b, c, n) ==
    [val |-> [i \in 1..n |-> safe_get_byte(b, align(c).pos + i - 1)],
     pos |-> align(c).pos + n, bit_pos |-> align(c).bit_pos]

read_u16_aligned(b, c) ==
    [val |-> ToNat(BitsOf(safe_get_byte(b, align(c).pos))
                   \cup Shl(BitsOf(safe_get_byte(b, align(c).pos + 1)), 8)),
     pos |-> align(c).pos + 2, bit_pos |-> align(c).bit_pos]

read_u32_aligned(b, c) ==
    [val |-> BitsOf(safe_get_byte(b, align(c).pos))
             \cup Shl(BitsOf(safe_get_byte(b, align(c).pos + 1)), 8)
             \cup Shl(BitsOf(safe_get_byte(b, align(c).pos + 2)), 16)
             \cup Shl(BitsOf(safe_get_byte(b, align(c).pos + 3)), 24),
     pos |-> align(c).pos + 4, bit_pos |-> align(c).bit_pos]

\* Several read_bits in a row, of the widths given; the values are below 2^31.
RECURSIVE read_many(_, _, _, _, _)
RECURSIVE read_many_step(_, _, _, _, _)
read_many(b, c, widths, k, acc) ==
    IF k > Len(widths) THEN [vals |-> acc, pos |-> c.pos, bit_pos |-> c.bit_pos]
    ELSE read_many_step(b, read_bits(b, c, widths[k]), widths, k, acc)

read_many_step(b, r, widths, k, acc) ==
    read_many(b, r, widths, k + 1, Append(acc, ToNat(r.val)))

(***************************************************************************)
(* main.rs: read_objects                                                   *)
(***************************************************************************)
NumSlots == 32

NumPlayers == 63

SkaterWidths == <<17, 17, 17, 31, 31, 13, 13, 13, 25, 25, 16, 16>>

PuckWidths == <<17, 17, 17, 31, 31>>

NonePacket == [kind |-> "None"]

SkaterPacket(v) ==
    [kind |-> "Skater", pos |-> <<v[1], v[2], v[3]>>, rot |-> <<v[4], v[5]>>,
     stick_pos |-> <<v[6], v[7], v[8]>>, stick_rot |-> <<v[9], v[10]>>,
     head_rot |-> v[11], body_rot |-> v[12]]

PuckPacket(v) == [kind |-> "Puck", pos |-> <<v[1], v[2], v[3]>>, rot |-> <<v[4], v[5]>>]

\* The fields of a cached slot in the order read_objects decodes them.
SkaterFields(s) ==
    <<s.pos[1], s.pos[2], s.pos[3], s.rot[1], s.rot[2],
      s.stick_pos[1], s.stick_pos[2], s.stick_pos[3],
      s.stick_rot[1], s.stick_rot[2], s.head_rot, s.body_rot>>

PuckFields(s) == <<s.pos[1], s.pos[2], s.pos[3], s.rot[1], s.rot[2]>>

\* A plausible slip: the reference of a puck never looked up.
old_of_type_skater_only(old_object_in_this_slot, object_type) ==
    IF old_object_in_this_slot = None THEN None
    ELSE IF object_type = 0 /\ old_object_in_this_slot[1].kind = "Skater"
    THEN Some(SkaterFields(old_object_in_this_slot[1]))
    ELSE None

\* old_skater / old_puck: the cached slot, when the cache holds the previous packet
\* and its slot i is of the type being decoded.
old_of_type(old_object_in_this_slot, object_type) ==
    IF old_object_in_this_slot = None THEN None
    ELSE LET o == old_object_in_this_slot[1]
         IN  IF object_type = 0 /\ o.kind = "Skater" THEN Some(SkaterFields(o))
             ELSE IF object_type = 1 /\ o.kind = "Puck" THEN Some(PuckFields(o))
             ELSE None

\* The read_pos calls of one slot, in order, each with its own reference.
RECURSIVE read_fields(_, _, _, _, _, _, _)
RECURSIVE read_fields_step(_, _, _, _, _, _, _)
read_fields(b, c, widths, olds, k, acc, chk) ==
    IF k > Len(widths)
    THEN [panic |-> FALSE, why |-> "", vals |-> acc, pos |-> c.pos, bit_pos |-> c.bit_pos]
    ELSE read_fields_step(b, read_pos(b, c, widths[k],
                                      IF olds = None THEN None ELSE Some(olds[1][k]), chk),
                          widths, olds, k, acc, chk)

read_fields_step(b, r, widths, olds, k, acc, chk) ==
    IF r.panic
    THEN [panic |-> TRUE, why |-> r.why, vals |-> acc, pos |-> r.pos, bit_pos |-> r.bit_pos]
    ELSE read_fields(b, r, widths, olds, k + 1, Append(acc, r.val), chk)

\* What read_slots records of a slot: its type tag (-1 for an empty slot) and the
\* reference its read_pos calls were given.
Given(tag, olds) == [tag |-> tag, olds |-> olds]

\* The loop `for i in 0..32` of read_objects; given records every slot decoded.
RECURSIVE read_slots(_, _, _, _, _, _, _)
RECURSIVE slot_is_object(_, _, _, _, _, _, _)
RECURSIVE slot_object_type(_, _, _, _, _, _, _, _)
RECURSIVE slot_packet(_, _, _, _, _, _, _, _, _)
read_slots(b, c, find_old, i, packets, given, chk) ==
    IF i >= NumSlots
    THEN [panic |-> FALSE, why |-> "", packets |-> packets, refs |-> given,
          pos |-> c.pos, bit_pos |-> c.bit_pos]
    ELSE slot_is_object(b, read_bits(b, c, 1), find_old, i, packets, given, chk)

slot_is_object(b, is_object, find_old, i, packets, given, chk) ==
    IF is_object.val = {}
    THEN read_slots(b, is_object, find_old, i + 1, Append(packets, NonePacket),
                    Append(given, Given(-1, None)), chk)
    ELSE slot_object_type(b, read_bits(b, is_object, 2),
                          IF find_old = None THEN None ELSE Some(find_old[1][i + 1]),
                          find_old, i, packets, given, chk)

slot_object_type(b, object_type, old_object_in_this_slot, find_old, i, packets, given, chk) ==
    IF ToNat(object_type.val) > 1
    THEN [panic |-> TRUE, why |-> "Unknown object type", packets |-> packets,
          refs |-> given, pos |-> object_type.pos, bit_pos |-> object_type.bit_pos]
    ELSE slot_packet(b, read_fields(b, object_type,
                            IF ToNat(object_type.val) = 0 THEN SkaterWidths ELSE PuckWidths,
                            old_of_type(old_object_in_this_slot, ToNat(object_type.val)),
                            1, <<>>, chk),
                     ToNat(object_type.val),
                     old_of_type(old_object_in_this_slot, ToNat(object_type.val)),
                     find_old, i, packets, given, chk)

slot_packet(b, f, object_type, olds, find_old, i, packets, given, chk) ==
    IF f.panic
    THEN [panic |-> TRUE, why |-> f.why, packets |-> packets,
          refs |-> Append(given, Given(object_type, olds)), pos |-> f.pos,
          bit_pos |-> f.bit_pos]
    ELSE read_slots(b, f, find_old, i + 1,
                    Append(packets, IF object_type = 0 THEN SkaterPacket(f.vals)
                                    ELSE PuckPacket(f.vals)),
                    Append(given, Given(object_type, olds)), chk)

\* A plausible slip: only the most recent table kept.
insert_latest_only(h, k, v) == [x \in {k} |-> v]

\* HashMap::insert: the entry of an existing key is replaced.
insert(h, k, v) == [x \in DOMAIN h \cup {k} |-> IF x = k THEN v ELSE h[x]]

\* HashMap::get
get(h, k) == IF k \in DOMAIN h THEN Some(h[k]) ELSE None

\* HQMGameObject of a raw slot, without the unit conversion (which cannot fail).
game_object(packet) ==
    CASE packet.kind = "None" -> "None"
      [] packet.kind = "Puck" -> "Puck"
      [] OTHER -> "Player"

\* A plausible slip: the table stored under the previous packet's number.
read_objects_result_previous_key(current_packet_num, previous_packet_num, cache, s) ==
    [panic |-> s.panic, why |-> s.why, pos |-> s.pos, bit_pos |-> s.bit_pos,
     refs |-> s.refs, packets |-> s.packets,
     objects |-> [i \in 1..Len(s.packets) |-> game_object(s.packets[i])],
     current_packet_num |-> current_packet_num.val,
     previous_packet_num |-> previous_packet_num.val,
     history |-> IF s.panic THEN cache
                 ELSE insert(cache, previous_packet_num.val, s.packets)]

\* The end of read_objects: the objects, the packet number, the table cached.
read_objects_result(current_packet_num, previous_packet_num, cache, s) ==
    [panic |-> s.panic, why |-> s.why, pos |-> s.pos, bit_pos |-> s.bit_pos,
     refs |-> s.refs, packets |-> s.packets,
     objects |-> [i \in 1..Len(s.packets) |-> game_object(s.packets[i])],
     current_packet_num |-> current_packet_num.val,
     previous_packet_num |-> previous_packet_num.val,
     history |-> IF s.panic THEN cache
                 ELSE insert(cache, current_packet_num.val, s.packets)]

read_objects_slots(b, current_packet_num, previous_packet_num, cache, chk) ==
    read_objects_result(current_packet_num, previous_packet_num, cache,
        read_slots(b, previous_packet_num, get(cache, previous_packet_num.val),
                   0, <<>>, <<>>, chk))

read_objects_previous(b, current_packet_num, cache, chk) ==
    read_objects_slots(b, current_packet_num, read_u32_aligned(b, current_packet_num),
                       cache, chk)

read_objects(b, c, cache, chk) ==
    read_objects_previous(b, read_u32_aligned(b, c), cache, chk)

(***************************************************************************)
(* main.rs: read_message                                                   *)
(***************************************************************************)
RECURSIVE trim_start(_)
trim_start(s) == IF s # <<>> /\ s[1] = 0 THEN trim_start(Tail(s)) ELSE s

RECURSIVE trim_end(_)
trim_end(s) ==
    IF s # <<>> /\ s[Len(s)] = 0 THEN trim_end(SubSeq(s, 1, Len(s) - 1)) ELSE s

\* String::from_utf8 accepts every sequence of bytes below 128, and read_bits(7)
\* gives no other; trim_matches(0) drops the NULs of both ends.
trim_matches(s) == trim_end(trim_start(s))

index_or_none(x) == IF x = 63 THEN None ELSE Some(x)

team_or_none(x) == CASE x = 0 -> Some("Red") [] x = 1 -> Some("Blue") [] OTHER -> None

zip(object_index, team) ==
    IF object_index # None /\ team # None THEN Some(<<object_index[1], team[1]>>)
    ELSE None

\* The 7-bit characters of a text.
read_chars(b, c, n) == read_many(b, c, [i \in 1..n |-> 7], 1, <<>>)

\* h: player_index, in_server, team, object_index; bytes: the 31 characters.
player_update(h, bytes) ==
    [panic |-> FALSE, pos |-> bytes.pos, bit_pos |-> bytes.bit_pos,
     msg |-> [type |-> "PlayerUpdate", player_name |-> trim_matches(bytes.vals),
              object |-> zip(index_or_none(h.vals[4]), team_or_none(h.vals[3])),
              player_index |-> h.vals[1], in_server |-> h.vals[2] = 1]]

read_player_update(b, h) == player_update(h, read_chars(b, h, 31))

\* h: team, goal_player_index, assist_player_index.
goal(h) ==
    [panic |-> FALSE, pos |-> h.pos, bit_pos |-> h.bit_pos,
     msg |-> [type |-> "Goal", team |-> IF h.vals[1] = 0 THEN "Red" ELSE "Blue",
              goal_player_index |-> index_or_none(h.vals[2]),
              assist_player_index |-> index_or_none(h.vals[3])]]

\* h: player_index, size; bytes: the size characters.
chat(h, bytes) ==
    [panic |-> FALSE, pos |-> bytes.pos, bit_pos |-> bytes.bit_pos,
     msg |-> [type |-> "Chat", player_index |-> index_or_none(h.vals[1]),
              message |-> trim_matches(bytes.vals)]]

read_chat(b, h) == chat(h, read_chars(b, h, h.vals[2]))

read_message_of(b, message_type) ==
    IF message_type.val = {}
    THEN read_player_update(b, read_many(b, message_type, <<6, 1, 2, 6>>, 1, <<>>))
    ELSE IF message_type.val = {0}
    THEN goal(read_many(b, message_type, <<2, 6, 6>>, 1, <<>>))
    ELSE IF message_type.val = {1}
    THEN read_chat(b, read_many(b, message_type, <<6, 6>>, 1, <<>>))
    ELSE [panic |-> TRUE, pos |-> message_type.pos, bit_pos |-> message_type.bit_pos,
          msg |-> [type |-> "Unknown"]]

read_message(b, c) == read_message_of(b, read_bits(b, c, 6))

(***************************************************************************)
(* main.rs: main, the loop over the packets of the file                    *)
(***************************************************************************)
\* What processing a message does to current_player_list; indexing the 63-entry
\* list out of range panics.
apply_message(players, msg) ==
    IF msg.type = "PlayerUpdate"
    THEN IF msg.player_index >= Len(players)
         THEN [panic |-> TRUE, players |-> players]
         ELSE [panic |-> FALSE,
               players |-> [players EXCEPT ![msg.player_index + 1] =
                               IF msg.in_server
                               THEN Some([name |-> msg.player_name,
                                          team_and_skater |-> msg.object])
                               ELSE None]]
    ELSE IF msg.type = "Goal"
    THEN [panic |-> \/ (msg.goal_player_index # None
                        /\ msg.goal_player_index[1] >= Len(players))
                    \/ (msg.assist_player_index # None
                        /\ msg.assist_player_index[1] >= Len(players)),
          players |-> players]
    ELSE [panic |-> msg.player_index # None /\ msg.player_index[1] >= Len(players),
          players |-> players]

\* A plausible slip: > for >=.
is_new_strict(msg_pos_of_this_message, cur_msg_pos) == msg_pos_of_this_message > cur_msg_pos

\* The test that keeps a message of the backlog: its position against current_msg_pos.
is_new(msg_pos_of_this_message, cur_msg_pos) == msg_pos_of_this_message >= cur_msg_pos

\* `for i in 0..message_num`: every message is decoded, and processed when its
\* position is at or past current_msg_pos.
RECURSIVE message_loop(_, _, _, _, _, _, _, _, _)
RECURSIVE message_read(_, _, _, _, _, _, _, _, _)
RECURSIVE message_applied(_, _, _, _, _, _, _, _, _, _)
message_loop(b, c, i, message_num, msg_pos, cur_msg_pos, players, msgs, positions) ==
    IF i >= message_num
    THEN [panic |-> FALSE, why |-> "", pos |-> c.pos, bit_pos |-> c.bit_pos,
          players |-> players, messages_in_this_packet |-> msgs, positions |-> positions]
    ELSE message_read(b, read_message(b, c), i, message_num, msg_pos, cur_msg_pos,
                      players, msgs, positions)

message_read(b, m, i, message_num, msg_pos, cur_msg_pos, players, msgs, positions) ==
    IF m.panic
    THEN [panic |-> TRUE, why |-> "Unknown message type", pos |-> m.pos,
          bit_pos |-> m.bit_pos, players |-> players,
          messages_in_this_packet |-> msgs, positions |-> positions]
    ELSE IF is_new(msg_pos + i, cur_msg_pos)
    THEN message_applied(b, m, apply_message(players, m.msg), i, message_num, msg_pos,
                         cur_msg_pos, players, msgs, positions)
    ELSE message_loop(b, m, i + 1, message_num, msg_pos, cur_msg_pos, players, msgs,
                      positions)

message_applied(b, m, a, i, message_num, msg_pos, cur_msg_pos, players, msgs, positions) ==
    IF a.panic
    THEN [panic |-> TRUE, why |-> "index out of bounds", pos |-> m.pos,
          bit_pos |-> m.bit_pos, players |-> players,
          messages_in_this_packet |-> msgs, positions |-> positions]
    ELSE message_loop(b, m, i + 1, message_num, msg_pos, cur_msg_pos, a.players,
                      Append(msgs, m.msg), Append(positions, msg_pos + i))

\* The end of an iteration: current_msg_pos, the HQMGameState, reader.next().
\* header: game_over, red_score, blue_score, time, goal_message_timer, period;
\* counts: message_num, msg_pos.
packet_state(header, o, counts, m) ==
    IF m.panic
    THEN [panic |-> TRUE, why |-> m.why, refs |-> o.refs,
          old_saved_packets |-> o.history, current_player_list |-> m.players]
    ELSE [panic |-> FALSE, why |-> "", refs |-> o.refs, pos |-> next(m).pos,
          bit_pos |-> next(m).bit_pos, old_saved_packets |-> o.history,
          current_msg_pos |-> counts.vals[2] + counts.vals[1],
          current_player_list |-> m.players,
          state |-> [packet_number |-> o.current_packet_num,
                     previous_packet_number |-> o.previous_packet_num,
                     game_over |-> header.vals[1] = 1,
                     red_score |-> header.vals[2], blue_score |-> header.vals[3],
                     time |-> header.vals[4], goal_message_timer |-> header.vals[5],
                     period |-> header.vals[6],
                     objects |-> o.objects,
                     message_num |-> counts.vals[1], msg_pos |-> counts.vals[2],
                     messages_in_this_packet |-> m.messages_in_this_packet,
                     positions |-> m.positions]]

packet_messages(b, header, o, counts, cur_msg_pos, players) ==
    packet_state(header, o, counts,
                 message_loop(b, counts, 0, counts.vals[1], counts.vals[2], cur_msg_pos,
                              players, <<>>, <<>>))

packet_counts(b, header, o, cur_msg_pos, players) ==
    IF o.panic
    THEN [panic |-> TRUE, why |-> o.why, refs |-> o.refs,
          old_saved_packets |-> o.history, current_player_list |-> players]
    ELSE packet_messages(b, header, o, read_many(b, o, <<16, 16>>, 1, <<>>),
                         cur_msg_pos, players)

packet_objects(b, header, saved, cur_msg_pos, players, chk) ==
    packet_counts(b, header, read_objects(b, header, saved, chk), cur_msg_pos, players)

\* One iteration of `while reader.pos < data_len`.
loop_body(b, c, saved, cur_msg_pos, players, chk) ==
    packet_objects(b, read_many(b, read_byte_aligned(b, c), <<1, 8, 8, 16, 16, 8>>, 1, <<>>),
                   saved, cur_msg_pos, players, chk)

(***************************************************************************)
(* The reader driven by an arbitrary caller: any operation, any argument.  *)
(***************************************************************************)
PatternByte(seed, i) ==
    IF seed = 0 THEN 255 ELSE (i * (74 * seed + 9) + 41 * seed) % 256

ReaderBufs == {[i \in 1..len |-> PatternByte(s, i)] : s \in 0..(NumSeeds - 1),
                                                     len \in 0..MaxBufLen}

Widths == {13, 16, 17, 25, 31}

RefChoices(w) == {None} \cup {Some(r) : r \in {0, 1, 5, Pow2[w - 1], Pow2[w - 1] - 1 + Pow2[w - 1]}}

NoOp == [op |-> "new", n |-> 0, old |-> None, from_pos |-> 0, from_bit |-> 0,
         bits |-> {}, num |-> 0, bytes |-> <<>>, panic |-> FALSE]

Done(op, n, old, r, bits, num, bytes, panic) ==
    /\ pos' = r.pos
    /\ bit_pos' = r.bit_pos
    /\ last' = [op |-> op, n |-> n, old |-> old, from_pos |-> pos, from_bit |-> bit_pos,
                bits |-> bits, num |-> num, bytes |-> bytes, panic |-> panic]
    /\ pc' = IF panic THEN "panic" ELSE pc
    /\ UNCHANGED <<buf, checks, dvars>>

\* A call is made while the reader stands at most MaxStartBit bits into the buffer.
CanCall == pc = "run" /\ 8 * pos + bit_pos <= MaxStartBit

DoReadBits ==
    \E n \in 0..32 :
        /\ CanCall
        /\ LET r == read_bits(buf, Cursor(pos, bit_pos), n)
           IN  Done("read_bits", n, None, r, r.val, 0, <<>>, FALSE)

DoReadBitsSigned ==
    \E n \in 0..32 :
        /\ CanCall
        /\ LET r == read_bits_signed(buf, Cursor(pos, bit_pos), n, checks)
           IN  Done("read_bits_signed", n, None, r, {}, r.val, <<>>, r.panic)

DoReadPos ==
    \E w \in Widths : \E old \in RefChoices(w) :
        /\ CanCall
        /\ LET r == read_pos(buf, Cursor(pos, bit_pos), w, old, checks)
           IN  Done("read_pos", w, old, r, {}, r.val, <<>>, r.panic)

DoAlign ==
    /\ CanCall
    /\ Done("align", 0, None, align(Cursor(pos, bit_pos)), {}, 0, <<>>, FALSE)

DoNext ==
    /\ CanCall
    /\ Done("next", 0, None, next(Cursor(pos, bit_pos)), {}, 0, <<>>, FALSE)

DoReadByteAligned ==
    /\ CanCall
    /\ LET r == read_byte_aligned(buf, Cursor(pos, bit_pos))
       IN  Done("read_byte_aligned", 1, None, r, {}, r.val, <<>>, FALSE)

DoReadU16Aligned ==
    /\ CanCall
    /\ LET r == read_u16_aligned(buf, Cursor(pos, bit_pos))
       IN  Done("read_u16_aligned", 2, None, r, {}, r.val, <<>>, FALSE)

DoReadU32Aligned ==
    /\ CanCall
    /\ LET r == read_u32_aligned(buf, Cursor(pos, bit_pos))
       IN  Done("read_u32_aligned", 4, None, r, r.val, 0, <<>>, FALSE)

DoReadBytesAligned ==
    \E n \in 0..MaxBytes :
        /\ CanCall
        /\ LET r == read_bytes_aligned(buf, Cursor(pos, bit_pos), n)
           IN  Done("read_bytes_aligned", n, None, r, {}, 0, r.val, FALSE)

ReaderInit ==
    /\ buf \in ReaderBufs
    /\ pos = 0
    /\ bit_pos = 0
    /\ checks \in BOOLEAN
    /\ pc = "run"
    /\ last = NoOp
    /\ old_saved_packets = <<>>
    /\ history = <<>>
    /\ current_player_list = [i \in 1..NumPlayers |-> None]
    /\ current_msg_pos = 0
    /\ why = ""
    /\ refs = <<>>
    /\ wire = <<>>

ReaderNext ==
    \/ DoReadBits
    \/ DoReadBitsSigned
    \/ DoReadPos
    \/ DoAlign
    \/ DoNext
    \/ DoReadByteAligned
    \/ DoReadU16Aligned
    \/ DoReadU32Aligned
    \/ DoReadBytesAligned

ReaderSpec == ReaderInit /\ [][ReaderNext]_vars

(***************************************************************************)
(* The files the decoder is run on: written, bit by bit in the layout the  *)
(* decoder reads, from one to MaxPackets packets, and cut short by some    *)
(* bytes.                                                                  *)
(***************************************************************************)
Field(sel, val) == [sel |-> sel, val |-> val]

Abs(v) == Field(3, v)

NoneSlot == [kind |-> "None", tag |-> 0, fields |-> <<>>]

BadSlot == [kind |-> "Bad", tag |-> 2, fields |-> <<>>]

PuckAbs == [kind |-> "Puck", tag |-> 1,
            fields |-> <<Abs(1000), Abs(0), Abs(131071), Abs(MaxI32), Abs(12345)>>]

PuckDelta == [kind |-> "Puck", tag |-> 1,
              fields |-> <<Field(0, 1), Field(1, -20), Field(2, -2000), Field(0, -3),
                           Abs(77)>>]

PuckOver == [kind |-> "Puck", tag |-> 1,
             fields |-> <<Abs(7), Abs(8), Abs(9), Field(0, 1), Abs(10)>>]

SkaterAbs == [kind |-> "Skater", tag |-> 0,
              fields |-> <<Abs(2000), Abs(1), Abs(70000), Abs(5), Abs(Pow2[30]),
                           Abs(8191), Abs(4096), Abs(0), Abs(33554431), Abs(3),
                           Abs(16384), Abs(65535)>>]

SkaterDelta == [kind |-> "Skater", tag |-> 0,
                fields |-> <<Field(0, -4), Field(0, 3), Field(1, 31), Field(1, -32),
                             Field(2, 2047), Abs(11), Field(2, -2048), Field(0, -1),
                             Field(1, 5), Abs(9), Field(0, 0), Field(2, 100)>>]

Table(s0, s31) == [i \in 1..NumSlots |-> IF i = 1 THEN s0
                                         ELSE IF i = NumSlots THEN s31 ELSE NoneSlot]


Goal(g, a) == [type |-> 1, team |-> 1, goal |-> g, assist |-> a]

Chat(i, text) == [type |-> 2, index |-> i, text |-> text]

PlayerUpdate(i, name) == [type |-> 0, index |-> i, in_server |-> 1, team |-> 0,
                          object |-> 3, name |-> name]

UnknownMsg == [type |-> 7]

MsgChoices == {[msg_pos |-> 10, msgs |-> <<Goal(1, 63), Goal(2, 1), Goal(63, 63)>>],
               [msg_pos |-> 11, msgs |-> <<Goal(2, 1), Goal(63, 63), Goal(4, 5)>>],
               [msg_pos |-> 5, msgs |-> <<Goal(7, 8), Goal(9, 10)>>],
               [msg_pos |-> 13, msgs |-> <<Chat(63, <<104, 105>>)>>],
               [msg_pos |-> 0, msgs |-> <<>>],
               [msg_pos |-> 12, msgs |-> <<PlayerUpdate(5, <<97, 98>>), Goal(5, 63)>>],
               [msg_pos |-> 14, msgs |-> <<UnknownMsg>>],
               [msg_pos |-> 14, msgs |-> <<PlayerUpdate(63, <<99>>)>>]}

Packet(cur, prev, slots, m) ==
    [cur |-> cur, prev |-> prev, slots |-> slots, msg_pos |-> m.msg_pos, msgs |-> m.msgs]

NoMessages == [msg_pos |-> 0, msgs |-> <<>>]

\* Packets without messages: first packets (1 after 0), packets that follow them
\* (2 after 1), a packet after a gap (2 after 0), and a packet number that repeats.
ObjectPackets ==
    {Packet(1, 0, Table(SkaterAbs, PuckAbs), NoMessages),
     Packet(1, 0, Table(PuckAbs, NoneSlot), NoMessages),
     Packet(2, 1, Table(SkaterDelta, PuckDelta), NoMessages),
     Packet(2, 1, Table(PuckDelta, NoneSlot), NoMessages),
     Packet(2, 1, Table(PuckOver, NoneSlot), NoMessages),
     Packet(2, 1, Table(BadSlot, NoneSlot), NoMessages),
     Packet(2, 0, Table(SkaterAbs, PuckAbs), NoMessages),
     Packet(2, 0, Table(NoneSlot, PuckDelta), NoMessages)}

SeqsUpTo(S, n) == UNION {[1..k -> S] : k \in 1..n}

MessageFiles ==
    {[k \in 1..Len(ms) |-> Packet(k, k - 1, Table(NoneSlot, NoneSlot), ms[k])] :
        ms \in SeqsUpTo(MsgChoices, MaxPackets)}

Files == SeqsUpTo(ObjectPackets, MaxPackets) \cup MessageFiles

\* The n bits of v < 2^31, lowest first.
Bits(v, n) == [i \in 1..n |-> IF i > 31 THEN 0 ELSE (v \div Pow2[i - 1]) % 2]

TwoC(d, n) == Bits(IF d < 0 THEN d + Pow2[n] ELSE d, n)

DeltaWidth(sel) == CASE sel = 0 -> 3 [] sel = 1 -> 6 [] OTHER -> 12

FieldBits(f, w) ==
    Bits(f.sel, 2) \o (IF f.sel = 3 THEN Bits(f.val, w) ELSE TwoC(f.val, DeltaWidth(f.sel)))

RECURSIVE Flatten(_)
Flatten(ss) == IF ss = <<>> THEN <<>> ELSE Head(ss) \o Flatten(Tail(ss))

SlotBits(s) ==
    IF s.kind = "None" THEN <<0>>
    ELSE <<1>> \o Bits(s.tag, 2)
         \o Flatten([k \in 1..Len(s.fields) |->
                        FieldBits(s.fields[k],
                                  IF s.tag = 0 THEN SkaterWidths[k] ELSE PuckWidths[k])])

Chars(text, n) == Flatten([k \in 1..n |-> Bits(IF k <= Len(text) THEN text[k] ELSE 0, 7)])

MsgBits(m) ==
    CASE m.type = 0 -> Bits(0, 6) \o Bits(m.index, 6) \o Bits(m.in_server, 1)
                       \o Bits(m.team, 2) \o Bits(m.object, 6) \o Chars(m.name, 31)
      [] m.type = 1 -> Bits(1, 6) \o Bits(m.team, 2) \o Bits(m.goal, 6) \o Bits(m.assist, 6)
      [] m.type = 2 -> Bits(2, 6) \o Bits(m.index, 6) \o Bits(Len(m.text), 6)
                       \o Chars(m.text, Len(m.text))
      [] OTHER -> Bits(m.type, 6)

Zeros(n) == [i \in 1..n |-> 0]

PadToByte(bits) == bits \o Zeros((8 - (Len(bits) % 8)) % 8)

\* The skip of one whole byte, or of the rest of the byte, that ends a packet.
SkipByte(bits) == IF Len(bits) % 8 = 0 THEN bits \o Zeros(8) ELSE PadToByte(bits)

PacketBits(d) ==
    SkipByte(PadToByte(Bits(5, 8) \o <<0>> \o Bits(2, 8) \o Bits(1, 8) \o Bits(1234, 16)
                       \o Bits(0, 16) \o Bits(1, 8))
             \o Bits(d.cur, 32) \o Bits(d.prev, 32)
             \o Flatten([i \in 1..NumSlots |-> SlotBits(d.slots[i])])
             \o Bits(Len(d.msgs), 16) \o Bits(d.msg_pos, 16)
             \o Flatten([k \in 1..Len(d.msgs) |-> MsgBits(d.msgs[k])]))

FileBits(ds) == Bits(1213287424, 32) \o Bits(0, 32)
                \o Flatten([k \in 1..Len(ds) |-> PacketBits(ds[k])])

ToBytes(bits) ==
    [k \in 1..(Len(bits) \div 8) |->
        LET at(j) == bits[8 * (k - 1) + j + 1]
        IN  at(0) + 2 * at(1) + 4 * at(2) + 8 * at(3) + 16 * at(4) + 32 * at(5)
            + 64 * at(6) + 128 * at(7)]

Cut(bytes, c) == SubSeq(bytes, 1, Max(Len(bytes) - c, 0))

(***************************************************************************)
(* main                                                                    *)
(***************************************************************************)
\* A plausible slip: the loop left only at the exact length.
loop_condition_exact(p, data_len) == p # data_len

\* while reader.pos < data_len
loop_condition(p, data_len) == p < data_len

DriverInit ==
    /\ \E ds \in Files : \E c \in 0..MaxCuts :
          /\ wire = ds
          /\ buf = Cut(ToBytes(FileBits(ds)), c * CutStep)
    /\ pos = 0
    /\ bit_pos = 0
    /\ checks \in BOOLEAN
    /\ pc = "start"
    /\ last = NoOp
    /\ old_saved_packets = <<>>
    /\ history = <<>>
    /\ current_player_list = [i \in 1..NumPlayers |-> None]
    /\ current_msg_pos = 0
    /\ why = ""
    /\ refs = <<>>

\* The two words that open the file, read and not looked at.
ReadHeader ==
    /\ pc = "start"
    /\ \E magic \in {read_u32_aligned(buf, Cursor(pos, bit_pos))} :
       \E bytes \in {read_u32_aligned(buf, magic)} :
           pos' = bytes.pos /\ bit_pos' = bytes.bit_pos
    /\ pc' = "loop"
    /\ UNCHANGED <<buf, checks, last, dvars>>

\* One iteration of the loop: a packet decoded and pushed, or the panic that ends
\* the process, with the cache and the player list as they are when it strikes.
DecodePacket ==
    /\ pc = "loop"
    /\ loop_condition(pos, Len(buf))
    /\ \E r \in {loop_body(buf, Cursor(pos, bit_pos), old_saved_packets, current_msg_pos,
                          current_player_list, checks)} :
           IF r.panic
           THEN /\ pc' = "panic"
                /\ why' = r.why
                /\ refs' = r.refs
                /\ old_saved_packets' = r.old_saved_packets
                /\ current_player_list' = r.current_player_list
                /\ UNCHANGED <<pos, bit_pos, history, current_msg_pos>>
           ELSE /\ pc' = "loop"
                /\ why' = ""
                /\ refs' = r.refs
                /\ pos' = r.pos
                /\ bit_pos' = r.bit_pos
                /\ old_saved_packets' = r.old_saved_packets
                /\ current_msg_pos' = r.current_msg_pos
                /\ current_player_list' = r.current_player_list
                /\ history' = Append(history, r.state)
    /\ UNCHANGED <<buf, checks, last, wire>>

\* The loop's condition fails: main returns Ok.
Finish ==
    /\ pc = "loop"
    /\ ~loop_condition(pos, Len(buf))
    /\ pc' = "done"
    /\ UNCHANGED <<buf, pos, bit_pos, checks, last, dvars>>

Next == ReadHeader \/ DecodePacket \/ Finish

Spec == DriverInit /\ [][Next]_vars

\* The process keeps running until main returns or panics: weak fairness of every
\* action.  DecodePacket changes pc or history whenever its guard holds, so
\* ENABLED <<DecodePacket>>_vars is that guard, and WF_vars(DecodePacket) is written
\* out with it.
Decodable == pc = "loop" /\ loop_condition(pos, Len(buf))

FairSpec ==
    /\ Spec
    /\ WF_vars(ReadHeader)
    /\ WF_vars(Finish)
    /\ ([]<>(~Decodable) \/ []<><<DecodePacket>>_vars)

(***************************************************************************)
(* The wire as the claims describe it: bit k of the stream is bit k % 8 of *)
(* byte k \div 8, and 0 past the end of the buffer.                        *)
(***************************************************************************)
StreamBit(b, k) ==
    IF k \div 8 < Len(b) THEN (b[(k \div 8) + 1] \div Pow2[k % 8]) % 2 ELSE 0

WireBits(b, s, n) == {i \in 0..(n - 1) : StreamBit(b, s + i) = 1}

WireByte(b, k) == IF k < Len(b) THEN b[k + 1] ELSE 0

RECURSIVE WireNat(_, _, _)
WireNat(b, s, n) == IF n = 0 THEN 0 ELSE StreamBit(b, s) + 2 * WireNat(b, s + 1, n - 1)

WireSigned(b, s, n) ==
    IF StreamBit(b, s + n - 1) = 1 THEN WireNat(b, s, n) - Pow2[n] ELSE WireNat(b, s, n)

LastStart == 8 * last.from_pos + last.from_bit

LastSelector == WireNat(buf, LastStart, 2)

LastDeltaWidth == CASE LastSelector = 0 -> 3 [] LastSelector = 1 -> 6 [] OTHER -> 12

LastDelta == WireSigned(buf, LastStart + 2, LastDeltaWidth)

\* C1: read_pos returns the full_width-bit value V under selector 3 whatever the
\* reference is, and max(0, R + D) under selector 0, 1 or 2 with a reference R,
\* without wrap-around or abort (R + D >= 0 is stated as R >= -D, and the result
\* being R + D as result - D = R, so that no sum leaves the 32-bit integers of TLC).
C1_ReadPosAsClaimed ==
    last.op = "read_pos" =>
        IF LastSelector = 3
        THEN ~last.panic /\ last.num = WireNat(buf, LastStart + 2, last.n)
        ELSE last.old # None =>
                /\ ~last.panic
                /\ IF last.old[1] >= -LastDelta
                   THEN last.num - LastDelta = last.old[1]
                   ELSE last.num = 0

\* C6: read_bits(n) then read_bits(32 - n) gives a and b with a + b * 2^n the value
\* read_bits(32) gives from the same start (a below 2^n, so the sum is the union of
\* a's bits and b's bits moved up by n), both paths end at the same cursor, and bit i
\* of the value is bit i of the stream from the start.
C6_ReadBitsSplit ==
    last.op = "read_bits" =>
        LET n == last.n
            rest == read_bits(buf, Cursor(pos, bit_pos), 32 - n)
            whole == read_bits(buf, Cursor(last.from_pos, last.from_bit), 32)
        IN  /\ last.bits \subseteq 0..(n - 1)
            /\ rest.val \subseteq 0..(31 - n)
            /\ last.bits \cup {i + n : i \in rest.val} = whole.val
            /\ rest.pos = whole.pos
            /\ rest.bit_pos = whole.bit_pos
            /\ whole.val = WireBits(buf, LastStart, 32)

C6_Witness ==
    /\ last.op = "read_bits"
    /\ last.n \in 1..31
    /\ last.from_bit > 0
    /\ last.bits # {}
    /\ read_bits(buf, Cursor(pos, bit_pos), 32 - last.n).val # {}
    /\ Len(buf) >= 5

\* C7: for every width n in 0..32 and every cursor from which the read stays inside
\* the buffer, read_bits(n) and read_bits_signed(n) do not panic, and with n = 0 they
\* return 0 and leave the cursor where it was.
C7_NoPanicAsClaimed ==
    (/\ last.op \in {"read_bits", "read_bits_signed"}
     /\ LastStart + last.n <= 8 * Len(buf)) =>
        /\ ~last.panic
        /\ last.n = 0 => /\ last.bits = {}
                         /\ last.num = 0
                         /\ pos = last.from_pos
                         /\ bit_pos = last.from_bit

\* C8: the bit offset stays in 0..7; a read_bits or read_bits_signed that consumes the
\* last bit of a byte leaves the bit offset 0 and the byte offset one past that byte;
\* the byte offset never decreases.
C8_CursorInvariant ==
    /\ [](bit_pos \in 0..7)
    /\ [][/\ pos' >= pos
          /\ (/\ last'.op \in {"read_bits", "read_bits_signed"}
              /\ last'.n > 0
              /\ (bit_pos + last'.n) % 8 = 0) =>
                 (bit_pos' = 0 /\ pos' = pos + (bit_pos + last'.n) \div 8)]_vars

C8_Witness ==
    /\ last.op = "read_bits"
    /\ last.from_bit > 0
    /\ last.n > 0
    /\ (last.from_bit + last.n) % 8 = 0
    /\ bit_pos = 0
    /\ pos = last.from_pos + (last.from_bit + last.n) \div 8

LastAligned == (LastStart + 7) \div 8

\* C9: a read that reaches past the end of the buffer does not fail: every bit taken
\* from a byte at or past the buffer length is 0, the bits of the bytes inside the
\* buffer keep their values, the cursor advances by the whole amount asked for, and
\* the buffer is not modified.
C9_ReadPastEnd ==
    /\ [](/\ last.op \in {"read_bits", "read_byte_aligned", "read_u16_aligned",
                          "read_u32_aligned", "read_bytes_aligned"} => ~last.panic
          /\ last.op = "read_bits" =>
                /\ last.bits = WireBits(buf, LastStart, last.n)
                /\ 8 * pos + bit_pos = LastStart + last.n
          /\ last.op = "read_byte_aligned" =>
                /\ last.num = WireByte(buf, LastAligned)
                /\ pos = LastAligned + 1 /\ bit_pos = 0
          /\ last.op = "read_u16_aligned" =>
                /\ last.num = WireByte(buf, LastAligned) + 256 * WireByte(buf, LastAligned + 1)
                /\ pos = LastAligned + 2 /\ bit_pos = 0
          /\ last.op = "read_u32_aligned" =>
                /\ last.bits = WireBits(buf, 8 * LastAligned, 32)
                /\ pos = LastAligned + 4 /\ bit_pos = 0
          /\ last.op = "read_bytes_aligned" =>
                /\ last.bytes = [i \in 1..last.n |-> WireByte(buf, LastAligned + i - 1)]
                /\ pos = LastAligned + last.n /\ bit_pos = 0)
    /\ [][buf' = buf]_vars

C9_Witness ==
    /\ last.op = "read_bits"
    /\ LastStart < 8 * Len(buf)
    /\ LastStart + last.n > 8 * Len(buf) + 8
    /\ last.bits # {}
    /\ last.from_bit > 0

(***************************************************************************)
(* The decoder against the packets the file was written from.              *)
(***************************************************************************)
\* The packet the next iteration of the loop decodes.
Current == Len(history) + 1

\* An iteration is about to run on a packet that lies whole inside the buffer.
Decoding ==
    /\ pc = "loop"
    /\ loop_condition(pos, Len(buf))
    /\ Current <= Len(wire)
    /\ 8 * Len(buf) >= Len(FileBits(SubSeq(wire, 1, Current)))

Present(s) == s.kind \in {"Skater", "Puck"}

AllAbsolute(slots) ==
    \A i \in 1..NumSlots :
        \/ slots[i].kind = "None"
        \/ Present(slots[i]) /\ \A k \in 1..Len(slots[i].fields) : slots[i].fields[k].sel = 3

Values(s) == [k \in 1..Len(s.fields) |-> s.fields[k].val]

RawTable(slots) ==
    [i \in 1..NumSlots |->
        CASE slots[i].kind = "Skater" -> SkaterPacket(Values(slots[i]))
          [] slots[i].kind = "Puck" -> PuckPacket(Values(slots[i]))
          [] OTHER -> NonePacket]

ObjectPanics == {"unwrap on None", "add with overflow", "Unknown object type"}

\* C2: read_objects on a packet whose previous_packet_number is not a key of the
\* cache, and whose present slots (tag 0 or 1) use selector 3 in every field, does not
\* abort, decodes the 32 slots into 32 objects, and leaves the cache holding the raw
\* table of the packet under current_packet_number.
C2_CacheMissDecodes ==
    [][(/\ Decoding
        /\ U32Of(wire[Current].prev) \notin DOMAIN old_saved_packets
        /\ AllAbsolute(wire[Current].slots))
       => /\ why' \notin ObjectPanics
          /\ Len(refs') = NumSlots
          /\ pc' = "loop" => /\ Len(history') = Current
                             /\ Len(history'[Current].objects) = 32
          /\ U32Of(wire[Current].cur) \in DOMAIN old_saved_packets'
          /\ Len(old_saved_packets'[U32Of(wire[Current].cur)]) = 32
          /\ old_saved_packets'[U32Of(wire[Current].cur)] = RawTable(wire[Current].slots)]_vars

\* A second packet decoded across a gap: its previous number, 0, was never cached.
C2_Witness ==
    /\ pc = "loop"
    /\ Len(history) = 2
    /\ wire[1].cur = 1
    /\ wire[2].cur = 2 /\ wire[2].prev = 0
    /\ wire[2].slots = Table(SkaterAbs, PuckAbs)
    /\ 8 * Len(buf) = Len(FileBits(wire))
    /\ Len(history[2].objects) = 32
    /\ history[2].objects[1] = "Player"
    /\ old_saved_packets[U32Of(2)] = RawTable(Table(SkaterAbs, PuckAbs))

\* The table cached under the previous_packet_number of packet k, if any.
Cached(k) == get(old_saved_packets, U32Of(wire[k].prev))

\* The cached table holds in slot i an object of the type packet k has there.
Matches(k, i) ==
    /\ Cached(k) # None
    /\ Cached(k)[1][i].kind = wire[k].slots[i].kind

FieldsOf(packet) ==
    IF packet.kind = "Skater" THEN SkaterFields(packet) ELSE PuckFields(packet)

\* Slot i of packet k is present, has no reference, and a field with selector 0, 1 or 2.
AbsentDelta(k, i) ==
    /\ Present(wire[k].slots[i])
    /\ ~Matches(k, i)
    /\ \E f \in 1..Len(wire[k].slots[i].fields) : wire[k].slots[i].fields[f].sel # 3

\* C3: the reference read_objects gives read_pos for the fields of slot i is the
\* fields of slot i of the table cached under previous_packet_number exactly when that
\* table exists and holds an object of the same type there, and is absent otherwise;
\* a slot without a reference that has a field with selector 0, 1 or 2 aborts the
\* decode at that slot with the failed unwrap, and no state is produced.
C3_References ==
    [][Decoding =>
          /\ \A i \in 1..Len(refs') :
                /\ refs'[i].tag = IF wire[Current].slots[i].kind = "None" THEN -1
                                  ELSE wire[Current].slots[i].tag
                /\ refs'[i].tag \in {0, 1} =>
                       refs'[i].olds = IF Matches(Current, i)
                                       THEN Some(FieldsOf(Cached(Current)[1][i]))
                                       ELSE None
          /\ \A i \in 1..NumSlots :
                (AbsentDelta(Current, i) /\ Len(refs') >= i) =>
                    /\ pc' = "panic"
                    /\ why' = "unwrap on None"
                    /\ Len(refs') = i
                    /\ history' = history
                    /\ old_saved_packets' = old_saved_packets]_vars

\* A puck with deltas where the cached table holds a skater: no reference, the abort.
C3_Witness ==
    /\ pc = "panic"
    /\ why = "unwrap on None"
    /\ Len(history) = 1
    /\ wire[1].slots[1].kind = "Skater"
    /\ wire[2].slots[1].kind = "Puck"
    /\ wire[2].prev = wire[1].cur
    /\ U32Of(wire[2].prev) \in DOMAIN old_saved_packets
    /\ Len(refs) = 1
    /\ refs[1] = Given(1, None)

\* C4, as claimed: a table stored under k is never replaced, modified or removed, and
\* every packet decoded changes the cache by exactly one new entry.
C4_InsertOnly ==
    [][/\ \A k \in DOMAIN old_saved_packets :
             /\ k \in DOMAIN old_saved_packets'
             /\ old_saved_packets'[k] = old_saved_packets[k]
       /\ Len(history') > Len(history) =>
             Cardinality(DOMAIN old_saved_packets')
                 = Cardinality(DOMAIN old_saved_packets) + 1]_vars

\* C4, amended: no key is ever removed, a step changes at most the table of one key,
\* and a packet decoded changes only the table under its own current_packet_number:
\* a new entry when the number is not yet a key, the entry replaced when it is.
C4_InsertOrReplace ==
    [][/\ \A k \in DOMAIN old_saved_packets : k \in DOMAIN old_saved_packets'
       /\ Cardinality({k \in DOMAIN old_saved_packets' :
                          \/ k \notin DOMAIN old_saved_packets
                          \/ old_saved_packets'[k] # old_saved_packets[k]}) <= 1
       /\ Len(history') > Len(history) =>
             /\ DOMAIN old_saved_packets'
                    = DOMAIN old_saved_packets \cup {history'[Len(history')].packet_number}
             /\ \A k \in DOMAIN old_saved_packets \ {history'[Len(history')].packet_number} :
                    old_saved_packets'[k] = old_saved_packets[k]
             /\ history'[Len(history')].packet_number \notin DOMAIN old_saved_packets =>
                    Cardinality(DOMAIN old_saved_packets')
                        = Cardinality(DOMAIN old_saved_packets) + 1]_vars

\* Two packets of different numbers decoded: two tables, the first one as it was stored.
C4_Witness ==
    /\ Len(history) = 2
    /\ history[1].packet_number # history[2].packet_number
    /\ Cardinality(DOMAIN old_saved_packets) = 2
    /\ old_saved_packets[history[1].packet_number] = RawTable(wire[1].slots)
    /\ wire[1].slots # wire[2].slots

\* The positions the packets decoded carry, and how often each was processed.
Carried == UNION {history[k].msg_pos..(history[k].msg_pos + history[k].message_num - 1) :
                     k \in 1..Len(history)}

Processed(p) ==
    Cardinality({x \in UNION {{<<k, j>> : j \in 1..Len(history[k].positions)} :
                                 k \in 1..Len(history)} :
                    history[x[1]].positions[x[2]] = p})

\* C5, as claimed: whatever the packets, every position that occurs in at least one
\* of them is processed exactly once over the run.
C5_EveryPositionOnce ==
    pc = "done" => \A p \in Carried : Processed(p) = 1

\* Neither the start nor the end of the range goes back from a packet to the next.
Monotone ==
    \A k \in 1..(Len(history) - 1) :
        /\ history[k + 1].msg_pos >= history[k].msg_pos
        /\ history[k + 1].msg_pos + history[k + 1].message_num
              >= history[k].msg_pos + history[k].message_num

\* C5, amended: when neither the start nor the end of the range goes back from one
\* packet decoded to the next, every position that occurs in at least one of them is
\* processed exactly once.
C5_MonotoneOnce ==
    Monotone => \A p \in Carried : Processed(p) = 1

\* The example of the claim: [10,11,12] then [11,12,13], and 13 processed once.
C5_Witness ==
    /\ pc = "done"
    /\ Len(history) = 2
    /\ history[1].msg_pos = 10 /\ history[1].message_num = 3
    /\ history[2].msg_pos = 11 /\ history[2].message_num = 3
    /\ history[1].positions = <<10, 11, 12>>
    /\ history[2].positions = <<13>>
    /\ Len(history[2].messages_in_this_packet) = 1

\* C10: the loop ends: an iteration that does not abort moves the byte offset up by
\* at least 10 (the marker byte, the two packet numbers, the skipped byte), the message
\* loop processes at most message_num < 2^16 messages, the loop is left as soon as,
\* and only when, the byte offset is at or past the buffer length, and every run ends
\* at that exit or at a panic.
C10_Terminates ==
    /\ <>(pc \in {"done", "panic"})
    /\ [][/\ (pc = "loop" /\ pc' = "loop") =>
                 /\ pos < Len(buf)
                 /\ pos' >= pos + 10
                 /\ Len(history') = Len(history) + 1
          /\ (pc = "loop" /\ pos >= Len(buf)) => pc' = "done"
          /\ pc' = "done" => (pc = "loop" /\ pos >= Len(buf))
          /\ pc \in {"done", "panic"} => pc' = pc]_vars
    /\ [](\A k \in 1..Len(history) :
             /\ history[k].message_num < 65536
             /\ Len(history[k].positions) <= history[k].message_num)

\* A file cut short: two packets decoded, the second past the end of the buffer.
C10_Witness ==
    /\ pc = "done"
    /\ Len(history) = 2
    /\ pos > Len(buf)
    /\ history[2].message_num > 0

\* The indices a processed message uses on current_player_list.
IndicesOf(msg) ==
    CASE msg.type = "PlayerUpdate" -> {msg.player_index}
      [] msg.type = "Goal" ->
            {x[1] : x \in {msg.goal_player_index, msg.assist_player_index} \ {None}}
      [] OTHER -> {x[1] : x \in {msg.player_index} \ {None}}

\* C11: every index a processed message uses on the 63-entry player list is below 63,
\* and processing a decoded message never aborts with an index out of range.
C11_IndexInBounds ==
    /\ why # "index out of bounds"
    /\ \A k \in 1..Len(history) :
          \A j \in 1..Len(history[k].messages_in_this_packet) :
              \A x \in IndicesOf(history[k].messages_in_this_packet[j]) : x < NumPlayers

====
